---- MODULE Spec2Model ----
(***************************************************************************)
(* CombinedMemoryServer (src/src/index.ts): the add-memory and             *)
(* search-memories tool handlers over the DragonflyDB (Redis) store and    *)
(* the in-process fallback array.                                          *)
(*                                                                         *)
(* Text is a sequence of one-character strings.  A tool call's arguments   *)
(* are a record; an argument the caller leaves out is a field the record   *)
(* does not have.  A Date is its number of milliseconds; the model's day   *)
(* has DayLen milliseconds.  In Spec, SpecBulk and SpecForeign a handler   *)
(* is one action: the Redis calls it awaits are applied in the handler's   *)
(* order, and the input `fail` names the call that rejects, a rejected     *)
(* call having no effect on Redis.                                         *)
(* Math.random ids are modelled as fresh: the n-th stored memory gets the  *)
(* n-th id.  A Redis set enumerates in an order fixed by its layout, which *)
(* SADD picks for the new member and which reads do not change.            *)
(*                                                                         *)
(* Spec: a few calls with every kind of argument, each Redis call free to  *)
(* reject, every add in a later millisecond than the one before.           *)
(* SpecBulk: one user writing up to MaxBulk memories, several of them in   *)
(* the same millisecond, against a backend that is up or down as a whole   *)
(* and changes at most once.                                               *)
(* SpecForeign: the Redis keyspace is shared: another client overwrites a  *)
(* record with text that is no JSON, or a record is deleted or evicted.    *)
(* SpecConcurrent: add-memory calls in flight together, one step per       *)
(* await; a Redis command and the promise of it settle apart, so a call    *)
(* can reject (commandTimeout) after Redis applied it.                     *)
(***************************************************************************)
EXTENDS Integers, Sequences, FiniteSets, TLC

VARIABLES
    redisStrings,   \* Redis string keys: key -> serialized record
    redisSets,      \* Redis set keys: key -> members in enumeration order
    memories,       \* this.memories, the in-process fallback array
    now,            \* the value new Date() returned last
    backend,        \* which Redis calls reject: see AddFails, SearchFails
    pending,        \* the addMemory calls suspended at an await
    log,            \* history: every memory addMemory created, in call order
    last,           \* history: the call that completed last
    prev            \* history: the call before it, when it bears on `last`

vars ==
    <<redisStrings, redisSets, memories, now, backend, pending, log, last, prev>>

(* ------------------------------ bounds -------------------------------- *)
MaxMemories == 2    \* memories created in a run of Spec, of SpecConcurrent
MaxBulk == 11       \* memories created in a run of SpecBulk
MaxForeign == 3     \* memories created in a run of SpecForeign
MaxCalls == 2       \* addMemory calls in flight together in SpecConcurrent
MaxTime == 2        \* last clock value of a run of SpecBulk
DayLen == 2         \* milliseconds in a (model) day

(* ------------------------- program constants -------------------------- *)
MaxResults == 10    \* .slice(0, 10)
PreviewLen == 100   \* content.substring(0, 100)
DefaultUserId == <<"quinn_may">>

(* ------------------------------ inputs -------------------------------- *)
UserIds == { <<>>, DefaultUserId, <<"u", "1">> }
Contents == { <<"T", "e", "a">>, <<"o", "k">> }
Queries == { <<"t", "E">>, <<"x">> }

\* a call that names no userId, an explicit userId, or no content
AddArgs ==
    [content : Contents]
        \cup [content : Contents, userId : UserIds \ {DefaultUserId}]
        \cup {[userId |-> DefaultUserId]}
SearchArgs ==
    [query : Queries] \cup [query : Queries, userId : UserIds]
        \cup {[userId |-> DefaultUserId]}

(* ------------------------------- text --------------------------------- *)
Min(a, b) == IF a < b THEN a ELSE b

LowerChar(c) ==
    CASE c = "T" -> "t"
      [] c = "E" -> "e"
      [] c = "A" -> "a"
      [] c = "O" -> "o"
      [] c = "K" -> "k"
      [] c = "X" -> "x"
      [] OTHER -> c

toLowerCase(s) == [i \in 1..Len(s) |-> LowerChar(s[i])]

includes(s, sub) ==
    \E k \in 0..(Len(s) - Len(sub)) :
        \A i \in 1..Len(sub) : s[k + i] = sub[i]

substring(s, from, to) == SubSeq(s, from + 1, Min(to, Len(s)))

(* ------------------------------- dates -------------------------------- *)
toISOString(t) == [date |-> t \div DayLen, time |-> t % DayLen]
NewDate(iso) == iso.date * DayLen + iso.time
ISODate(t) == toISOString(t).date

(* ---------------------------- validation ------------------------------ *)
\* z.object({content: z.string(), userId: z.string().default("quinn_may")})
AddSchemaOk(args) == "content" \in DOMAIN args
SearchSchemaOk(args) == "query" \in DOMAIN args
ParseUserId_DefaultIsEmpty(args) ==
    IF "userId" \in DOMAIN args THEN args.userId ELSE <<>>
ParseUserId_EmptyIsDefault(args) ==
    IF "userId" \in DOMAIN args /\ args.userId # <<>> THEN args.userId
    ELSE DefaultUserId
ParseUserId(args) ==
    IF "userId" \in DOMAIN args THEN args.userId ELSE DefaultUserId

(* ------------------------------- Redis -------------------------------- *)
IdChars == <<"a", "b", "c", "d", "e", "f", "g", "h", "i", "j", "k", "l",
             "m", "n", "o", "p", "q", "r", "s", "t">>
NewId(n) == <<IdChars[n]>>

MemoryKey(userId, id) == <<"memory", ":">> \o userId \o <<":">> \o id
SearchKey(userId) == <<"search", ":">> \o userId

JSONStringify(memory) ==
    [id |-> memory.id, content |-> memory.content, userId |-> memory.userId,
     timestamp |-> toISOString(memory.timestamp)]
JSONParse(data) ==
    [id |-> data.id, content |-> data.content, userId |-> data.userId,
     timestamp |-> NewDate(data.timestamp)]

RedisSet(strings, key, value) ==
    [k \in DOMAIN strings \cup {key} |-> IF k = key THEN value ELSE strings[k]]
RedisGet(strings, key) ==
    IF key \in DOMAIN strings THEN <<strings[key]>> ELSE <<>>
RedisSmembers(sets, key) ==
    IF key \in DOMAIN sets THEN sets[key] ELSE <<>>
InsertAt(seq, pos, x) ==
    SubSeq(seq, 1, pos - 1) \o <<x>> \o SubSeq(seq, pos, Len(seq))
\* SADD: a member already present changes nothing; a new one lands at
\* enumeration position pos.
RedisSadd(sets, key, member, pos) ==
    LET old == RedisSmembers(sets, key)
    IN  IF \E i \in 1..Len(old) : old[i] = member
        THEN sets
        ELSE [k \in DOMAIN sets \cup {key} |->
                 IF k = key THEN InsertAt(old, Min(pos, Len(old) + 1), member)
                 ELSE sets[k]]

(* ------------------------- the state as a value ----------------------- *)
EmptyMap == [k \in {} |-> <<>>]
EmptyState ==
    [strings |-> EmptyMap, sets |-> EmptyMap, memories |-> <<>>, log |-> <<>>]
NoCall == [op |-> "none"]

(* ------------------------------ addMemory ----------------------------- *)
\* lines 100-105: the Memory object
NewMemory(n, content, userId, t) ==
    [id |-> NewId(n), content |-> content, userId |-> userId, timestamp |-> t]

FallbackPush_Unshift(mems, memory) == <<memory>> \o mems
\* line 127: this.memories.push(memory)
FallbackPush(mems, memory) == Append(mems, memory)

AddStores_NoFallbackPush(st, memory, fail, pos) ==
    [strings |-> IF fail = "set" THEN st.strings
                 ELSE RedisSet(st.strings, MemoryKey(memory.userId, memory.id),
                               JSONStringify(memory)),
     sets |-> IF fail = "none"
              THEN RedisSadd(st.sets, SearchKey(memory.userId), memory.id, pos)
              ELSE st.sets,
     memories |-> st.memories]
\* lines 107-128: try { set; sadd } catch { this.memories.push(memory) }
\* fail: "none", or the call that rejects ("set" or "sadd")
AddStores(st, memory, fail, pos) ==
    LET key == MemoryKey(memory.userId, memory.id)
        strings1 == IF fail = "set" THEN st.strings
                    ELSE RedisSet(st.strings, key, JSONStringify(memory))
        sets1 == IF fail = "none"
                 THEN RedisSadd(st.sets, SearchKey(memory.userId), memory.id, pos)
                 ELSE st.sets
        memories1 == IF fail = "none" THEN st.memories
                     ELSE FallbackPush(st.memories, memory)
    IN  [strings |-> strings1, sets |-> sets1, memories |-> memories1]

\* lines 130-135: the confirmation text
AddText(userId, content) ==
    [head |-> "Memory added successfully for user", userId |-> userId,
     preview |-> substring(content, 0, PreviewLen),
     ellipsis |-> Len(content) > PreviewLen]

\* what the caller gets: the handler's content item, or the error thrown
ZodError == [type |-> "error", text |-> [head |-> "ZodError"]]
BackendError == [type |-> "error", text |-> [head |-> "Redis error"]]
TextReply(text) == [type |-> "text", text |-> text]

AddThrows_SetOutsideTry(fail) == fail = "set"
AddThrows_SaddOutsideTry(fail) == fail = "sadd"
\* lines 107, 124: both awaits are inside the try block, so no rejection
\* leaves addMemory
AddThrows(fail) == FALSE

\* lines 92-136; t is the value of new Date()
AddOutcome(st, t, args, fail, pos) ==
    IF ~AddSchemaOk(args)
    THEN [st |-> st,
          call |-> [op |-> "add", args |-> args, valid |-> FALSE,
                    reply |-> ZodError]]
    ELSE LET userId == ParseUserId(args)
             memory == NewMemory(Len(st.log) + 1, args.content, userId, t)
             stores == AddStores(st, memory, fail, pos)
             store == IF fail = "none" THEN "primary" ELSE "fallback"
             reply == IF AddThrows(fail) THEN BackendError
                      ELSE TextReply(AddText(userId, args.content))
         IN  [st |-> [strings |-> stores.strings, sets |-> stores.sets,
                      memories |-> stores.memories,
                      log |-> Append(st.log, [memory |-> memory,
                                              store |-> store,
                                              args |-> args,
                                              reply |-> reply])],
              call |-> [op |-> "add", args |-> args, valid |-> TRUE,
                        userId |-> userId, memory |-> memory, store |-> store,
                        reply |-> reply]]

(* ---------------------------- searchMemories -------------------------- *)
\* a value some other client stored: JSON.parse throws a SyntaxError on it
NotJSON == [raw |-> "not json"]
Parseable(data) == DOMAIN data = {"id", "content", "userId", "timestamp"}

ScanThrows_OnMissingRecord(strings, memoryIds, userId) ==
    \E n \in 1..Len(memoryIds) :
        LET memoryData == RedisGet(strings, MemoryKey(userId, memoryIds[n]))
        IN  memoryData = <<>> \/ ~Parseable(memoryData[1])
\* lines 157-158: JSON.parse is inside the try block and runs on every
\* record that is there; a SyntaxError ends the loop in the catch block
ScanThrows(strings, memoryIds, userId) ==
    \E n \in 1..Len(memoryIds) :
        LET memoryData == RedisGet(strings, MemoryKey(userId, memoryIds[n]))
        IN  memoryData # <<>> /\ ~Parseable(memoryData[1])

\* lines 153-166: the loop over the first n ids of memoryIds
RECURSIVE PrimaryScan(_, _, _, _, _)
PrimaryScan(strings, memoryIds, n, userId, queryLower) ==
    IF n = 0 THEN <<>>
    ELSE LET sofar == PrimaryScan(strings, memoryIds, n - 1, userId, queryLower)
             memoryData == RedisGet(strings, MemoryKey(userId, memoryIds[n]))
         IN  IF memoryData = <<>> THEN sofar
             ELSE LET memory == JSONParse(memoryData[1])
                  IN  IF includes(toLowerCase(memory.content), queryLower)
                      THEN Append(sofar, memory)
                      ELSE sofar

FallbackFilter_ExactContent(mems, userId, queryLower) ==
    SelectSeq(mems, LAMBDA memory :
        memory.userId = userId /\ toLowerCase(memory.content) = queryLower)
FallbackFilter_AnyUser(mems, userId, queryLower) ==
    SelectSeq(mems, LAMBDA memory :
        includes(toLowerCase(memory.content), queryLower))
\* lines 172-176: this.memories.filter(...)
FallbackFilter(mems, userId, queryLower) ==
    SelectSeq(mems, LAMBDA memory :
        /\ memory.userId = userId
        /\ includes(toLowerCase(memory.content), queryLower))

\* lines 148-177: the try block ran to its end
PrimaryServes(st, userId, fail) ==
    fail = 0
        /\ ~ScanThrows(st.strings, RedisSmembers(st.sets, SearchKey(userId)),
                       userId)

Matching_MergedStores(st, userId, queryLower, fail) ==
    LET memoryIds == RedisSmembers(st.sets, SearchKey(userId))
    IN  IF fail = 0 /\ ~ScanThrows(st.strings, memoryIds, userId)
        THEN PrimaryScan(st.strings, memoryIds, Len(memoryIds), userId,
                         queryLower)
                \o FallbackFilter(st.memories, userId, queryLower)
        ELSE FallbackFilter(st.memories, userId, queryLower)
\* lines 148-177.  fail: 0 when no call rejects, 1 when smembers rejects,
\* k + 1 when the get of the k-th id rejects.
Matching(st, userId, queryLower, fail) ==
    LET memoryIds == RedisSmembers(st.sets, SearchKey(userId))
    IN  IF fail = 0 /\ ~ScanThrows(st.strings, memoryIds, userId)
        THEN PrimaryScan(st.strings, memoryIds, Len(memoryIds), userId, queryLower)
        ELSE FallbackFilter(st.memories, userId, queryLower)

RECURSIVE SortByTimestamp_Ascending(_)
SortByTimestamp_Ascending(ms) ==
    IF ms = <<>> THEN <<>>
    ELSE LET rest == SortByTimestamp_Ascending(SubSeq(ms, 1, Len(ms) - 1))
             m == ms[Len(ms)]
             k == Cardinality({i \in 1..Len(rest) :
                                 rest[i].timestamp <= m.timestamp})
         IN  InsertAt(rest, k + 1, m)
RECURSIVE SortByTimestamp_TiesReversed(_)
SortByTimestamp_TiesReversed(ms) ==
    IF ms = <<>> THEN <<>>
    ELSE LET rest == SortByTimestamp_TiesReversed(SubSeq(ms, 1, Len(ms) - 1))
             m == ms[Len(ms)]
             k == Cardinality({i \in 1..Len(rest) :
                                 rest[i].timestamp > m.timestamp})
         IN  InsertAt(rest, k + 1, m)
\* line 180: Array.prototype.sort is stable; the comparator orders by
\* timestamp, most recent first.
RECURSIVE SortByTimestamp(_)
SortByTimestamp(ms) ==
    IF ms = <<>> THEN <<>>
    ELSE LET rest == SortByTimestamp(SubSeq(ms, 1, Len(ms) - 1))
             m == ms[Len(ms)]
             \* m goes after every element that is not older than it
             k == Cardinality({i \in 1..Len(rest) :
                                 rest[i].timestamp >= m.timestamp})
         IN  InsertAt(rest, k + 1, m)

ResultLines_NoSlice(matches) ==
    [i \in 1..Len(matches) |->
        [index |-> i, date |-> ISODate(matches[i].timestamp),
         content |-> matches[i].content]]
\* lines 192-197: slice(0, 10).map(...); join('\n\n') keeps the lines apart
ResultLines(matches) ==
    [i \in 1..Min(MaxResults, Len(matches)) |->
        [index |-> i, date |-> ISODate(matches[i].timestamp),
         content |-> matches[i].content]]

SearchText_NoEmptyCase(matches, query) ==
    [head |-> "Found", count |-> Len(matches), query |-> query,
     lines |-> ResultLines(matches)]
\* lines 183-204
SearchText(matches, query) ==
    IF Len(matches) = 0
    THEN [head |-> "No memories found for query", query |-> query]
    ELSE [head |-> "Found", count |-> Len(matches), query |-> query,
          lines |-> ResultLines(matches)]

SearchThrows_GetOutsideTry(fail) == fail > 1
\* lines 148, 169: smembers and every get are inside the try block, so no
\* rejection leaves searchMemories
SearchThrows(fail) == FALSE

MemoriesAfterSearch_SortedInPlace(mems) == SortByTimestamp(mems)
MemoriesAfterSearch_ReverseInPlace(mems) ==
    [i \in 1..Len(mems) |-> mems[Len(mems) + 1 - i]]
\* lines 172-180: filter builds a new array and sort works on that one;
\* this.memories is as it was
MemoriesAfterSearch(mems) == mems

\* lines 138-205
SearchOutcome(st, args, fail) ==
    IF ~SearchSchemaOk(args)
    THEN [op |-> "search", args |-> args, valid |-> FALSE, reply |-> ZodError]
    ELSE LET userId == ParseUserId(args)
             matches == SortByTimestamp(
                            Matching(st, userId, toLowerCase(args.query), fail))
         IN  [op |-> "search", args |-> args, valid |-> TRUE, userId |-> userId,
              store |-> IF PrimaryServes(st, userId, fail) THEN "primary"
                        ELSE "fallback",
              rejected |-> fail # 0,
              matches |-> matches,
              reply |-> IF SearchThrows(fail) THEN BackendError
                        ELSE TextReply(SearchText(matches, args.query))]

(* ------------------------------ the machine --------------------------- *)
State == [strings |-> redisStrings, sets |-> redisSets,
          memories |-> memories, log |-> log]

\* the call before `call`, kept when `call` is a search and the call before
\* it is an add or a search with the same arguments; this history is kept
\* in the runs of SpecBulk, where pairs of calls are compared
Remember(prior, call) ==
    IF /\ backend # "flaky"
       /\ call.op = "search"
       /\ \/ prior.op = "add"
          \/ prior.op = "search" /\ prior.args = call.args
    THEN prior
    ELSE NoCall

\* the Redis call of an add that rejects, by the state of the backend
AddFails ==
    CASE backend = "flaky" -> {"none", "set", "sadd"}
      [] backend \in {"up", "recovered"} -> {"none"}
      [] backend \in {"down", "lost"} -> {"set"}

\* the Redis call of a search that rejects: see Matching
SearchFails(args) ==
    CASE backend = "flaky" ->
            0..(1 + Len(RedisSmembers(redisSets, SearchKey(ParseUserId(args)))))
      [] backend \in {"up", "recovered"} -> {0}
      [] backend \in {"down", "lost"} -> {1}

InitStores ==
    /\ redisStrings = EmptyMap
    /\ redisSets = EmptyMap
    /\ memories = <<>>
    /\ now = 0
    /\ pending = EmptyMap
    /\ log = <<>>
    /\ last = NoCall
    /\ prev = NoCall

Init == InitStores /\ backend = "flaky"

InitBulk == InitStores /\ backend \in {"up", "down"}

\* dt: the milliseconds between the last reading of the clock and this one
AddMemory(args, fail, pos, dt, limit) ==
    /\ AddSchemaOk(args) => Len(log) < limit
    /\ LET out == AddOutcome(State, now + dt, args, fail, pos)
       IN  /\ redisStrings' = out.st.strings
           /\ redisSets' = out.st.sets
           /\ memories' = out.st.memories
           /\ log' = out.st.log
           /\ last' = out.call
           /\ prev' = Remember(last, out.call)
    /\ now' = IF AddSchemaOk(args) THEN now + dt ELSE now
    /\ UNCHANGED <<backend, pending>>

SearchMemories(args, fail) ==
    /\ LET call == SearchOutcome(State, args, fail)
       IN  /\ last' = call
           /\ prev' = Remember(last, call)
    /\ memories' = MemoriesAfterSearch(memories)
    /\ UNCHANGED <<redisStrings, redisSets, now, backend, pending, log>>

\* the connection to Redis is lost, or comes back
Switch ==
    /\ backend \in {"up", "down"}
    /\ backend' = IF backend = "up" THEN "lost" ELSE "recovered"
    /\ UNCHANGED <<redisStrings, redisSets, memories, now, pending, log, last,
                   prev>>

\* where a new member lands in a set's enumeration
Positions(fail, userId) ==
    IF fail = "none"
    THEN 1..(1 + Len(RedisSmembers(redisSets, SearchKey(userId))))
    ELSE {1}

Next ==
    \/ \E args \in AddArgs, fail \in AddFails :
          \E pos \in Positions(fail, ParseUserId(args)) :
             AddMemory(args, fail, pos, 1, MaxMemories)
    \/ \E args \in SearchArgs :
          \E fail \in SearchFails(args) : SearchMemories(args, fail)

Spec == Init /\ [][Next]_vars

(* --------------------------- the bulk writer -------------------------- *)
BulkUser == <<"u", "1">>
\* the n-th memory's content: no two alike, all with a "t"
BulkContent(n) == <<"t", IdChars[n]>>
BulkAddArgs == [content |-> BulkContent(Len(log) + 1), userId |-> BulkUser]
BulkSearchArgs == [query : { <<"T">>, <<"x">> }, userId : {BulkUser}]
\* odd members land first in the enumeration, even ones last
BulkPosition == IF Len(log) % 2 = 0 THEN 1 ELSE Len(log) + 1

NextBulk ==
    \/ \E fail \in AddFails, dt \in {d \in 0..1 : now + d <= MaxTime} :
          AddMemory(BulkAddArgs, fail, BulkPosition, dt, MaxBulk)
    \/ \E args \in BulkSearchArgs :
          \E fail \in SearchFails(args) : SearchMemories(args, fail)
    \/ Switch

SpecBulk == InitBulk /\ [][NextBulk]_vars

(* -------------------------- the shared keyspace ----------------------- *)
\* Redis serves other clients too.  One of them stores under a memory key
\* a value that is no JSON.
Overwrite(key) ==
    /\ key \in DOMAIN redisStrings
    /\ redisStrings[key] # NotJSON
    /\ redisStrings' = RedisSet(redisStrings, key, NotJSON)
    /\ last' = NoCall
    /\ prev' = NoCall
    /\ UNCHANGED <<redisSets, memories, now, backend, pending, log>>

\* A memory key is deleted or evicted; the index set keeps the id.
Evict(key) ==
    /\ key \in DOMAIN redisStrings
    /\ redisStrings' = [k \in DOMAIN redisStrings \ {key} |-> redisStrings[k]]
    /\ last' = NoCall
    /\ prev' = NoCall
    /\ UNCHANGED <<redisSets, memories, now, backend, pending, log>>

ForeignAddArgs == [content : Contents, userId : {BulkUser}]
ForeignSearchArgs == [query : Queries, userId : {BulkUser}]

NextForeign ==
    \/ \E args \in ForeignAddArgs, fail \in {"none", "set"} :
          \E pos \in Positions(fail, ParseUserId(args)) :
             AddMemory(args, fail, pos, 1, MaxForeign)
    \/ \E args \in ForeignSearchArgs :
          \E fail \in SearchFails(args) : SearchMemories(args, fail)
    \/ \E key \in DOMAIN redisStrings : Overwrite(key)
    \/ \E key \in DOMAIN redisStrings : Evict(key)

SpecForeign == Init /\ [][NextForeign]_vars

(* ------------------------- calls in flight ---------------------------- *)
\* addMemory one await at a time.  pending[p] is a call suspended at the
\* await of `at`; the callbacks of different calls run in any order.  A
\* Redis command and the promise of it settle apart: the promise resolves
\* only when Redis applied the command, but it can reject (connection lost,
\* commandTimeout of line 38) whether Redis applied it or not.
Calls == 1..MaxCalls
Started == Len(log) + Cardinality(DOMAIN pending)

NextStep_SaddRejectionIgnored(at, ok) ==
    IF at = "set" THEN (IF ok THEN "sadd" ELSE "catch") ELSE "return"
NextStep_SetRejectionIgnored(at, ok) ==
    IF at = "set" THEN "sadd" ELSE IF ok THEN "return" ELSE "catch"
\* lines 107-128: where addMemory goes when the awaited call settles
NextStep(at, ok) ==
    IF ~ok THEN "catch"
    ELSE IF at = "set" THEN "sadd"
    ELSE "return"

\* lines 92-116: parse, build the memory, call redis.set
AddBegins(p, args, dt) ==
    /\ p \notin DOMAIN pending
    /\ AddSchemaOk(args)
    /\ Started < MaxMemories
    /\ pending' = [q \in DOMAIN pending \cup {p} |->
                      IF q = p
                      THEN [args |-> args, at |-> "set",
                            memory |-> NewMemory(Started + 1, args.content,
                                                 ParseUserId(args), now + dt)]
                      ELSE pending[q]]
    /\ now' = now + dt
    /\ UNCHANGED <<redisStrings, redisSets, memories, backend, log, last, prev>>

\* lines 117-135: the awaited call of p settles
Settles(p, applied, ok, pos) ==
    /\ p \in DOMAIN pending
    /\ ok => applied
    /\ LET memory == pending[p].memory
           at == pending[p].at
           step == NextStep(at, ok)
           store == IF step = "return" THEN "primary" ELSE "fallback"
           reply == TextReply(AddText(memory.userId, memory.content))
           call == [op |-> "add", args |-> pending[p].args, valid |-> TRUE,
                    userId |-> memory.userId, memory |-> memory,
                    store |-> store, reply |-> reply]
       IN  /\ redisStrings' =
                  IF applied /\ at = "set"
                  THEN RedisSet(redisStrings,
                                MemoryKey(memory.userId, memory.id),
                                JSONStringify(memory))
                  ELSE redisStrings
           /\ redisSets' =
                  IF applied /\ at = "sadd"
                  THEN RedisSadd(redisSets, SearchKey(memory.userId),
                                 memory.id, pos)
                  ELSE redisSets
           /\ memories' = IF step = "catch" THEN FallbackPush(memories, memory)
                          ELSE memories
           /\ IF step = "sadd"
              THEN /\ pending' = [pending EXCEPT ![p].at = "sadd"]
                   /\ UNCHANGED <<log, last, prev>>
              ELSE /\ pending' = [q \in DOMAIN pending \ {p} |-> pending[q]]
                   /\ log' = Append(log, [memory |-> memory, store |-> store,
                                          args |-> pending[p].args,
                                          reply |-> reply])
                   /\ last' = call
                   /\ prev' = Remember(last, call)
    /\ UNCHANGED <<now, backend>>

SetSettles(p, applied, ok) ==
    /\ p \in DOMAIN pending
    /\ pending[p].at = "set"
    /\ Settles(p, applied, ok, 1)

SaddSettles(p, applied, ok, pos) ==
    /\ p \in DOMAIN pending
    /\ pending[p].at = "sadd"
    /\ Settles(p, applied, ok, pos)

NextConcurrent ==
    \/ \E p \in Calls, args \in ForeignAddArgs : AddBegins(p, args, 1)
    \/ \E p \in Calls, applied, ok \in BOOLEAN : SetSettles(p, applied, ok)
    \/ \E p \in Calls, applied, ok \in BOOLEAN :
          \E pos \in 1..(1 + Len(RedisSmembers(redisSets, SearchKey(BulkUser)))) :
             SaddSettles(p, applied, ok, pos)
    \/ \E args \in ForeignSearchArgs :
          \E fail \in SearchFails(args) : SearchMemories(args, fail)

SpecConcurrent == Init /\ [][NextConcurrent]_vars

(* ====================== the claims' vocabulary ======================== *)
\* query is a substring of content when the case of letters is ignored
CaseInsensitiveSubstring(query, content) ==
    \E k \in 0..(Len(content) - Len(query)) :
        \A i \in 1..Len(query) : LowerChar(content[k + i]) = LowerChar(query[i])

ValidAdd(call) == call.op = "add" /\ call.valid
ValidSearch(call) == call.op = "search" /\ call.valid
FoundCase(call) == call.reply.type = "text" /\ call.reply.text.head = "Found"
NoneCase(call) ==
    call.reply.type = "text"
        /\ call.reply.text.head = "No memories found for query"

\* the lines of a search's digest
Rendered(call) == IF FoundCase(call) THEN call.reply.text.lines ELSE <<>>
RendersContent(call, content) ==
    \E i \in DOMAIN Rendered(call) : Rendered(call)[i].content = content

\* the log entry of the memory with this id
LogIndex(id) == CHOOSE i \in 1..Len(log) : log[i].memory.id = id
\* the search collected the i-th memory of the log
Found(call, i) ==
    \E k \in DOMAIN call.matches : call.matches[k].id = log[i].memory.id

\* the memories held by `store` for userId that match query
StoreMatches(store, userId, query) ==
    {i \in 1..Len(log) :
        /\ log[i].store = store
        /\ log[i].memory.userId = userId
        /\ CaseInsensitiveSubstring(query, log[i].memory.content)}

\* the other matching memories of the same store and user that are not
\* older than the i-th
Rivals(i, query) ==
    {j \in StoreMatches(log[i].store, log[i].memory.userId, query) :
        j # i /\ log[j].memory.timestamp >= log[i].memory.timestamp}

\* `last` is a search that follows at once the add of a memory it looks for
AddThenSearch ==
    /\ ValidSearch(last)
    /\ ValidAdd(prev)
    /\ last.userId = prev.userId
    /\ CaseInsensitiveSubstring(last.args.query, prev.memory.content)

(* ================================ C1 ================================== *)
\* C1 as stated: an add followed at once by a matching search of the same
\* user gets a digest with the content, whichever calls reject.
C1_AnyAvailability ==
    AddThenSearch => RendersContent(last, prev.memory.content)

\* C1, amended: an add followed at once by a matching search of the same user
\* gets a digest with the content when the search is served by the store the
\* add wrote to and fewer than 10 other matching memories of that user in
\* that store are as recent as the new one.
C1_SameStoreRoundTrip ==
    ( /\ AddThenSearch
      /\ last.store = prev.store
      /\ Cardinality(Rivals(Len(log), last.args.query)) < MaxResults )
        => RendersContent(last, prev.memory.content)

C1_Witness ==
    /\ AddThenSearch
    /\ last.store = "primary"
    /\ prev.store = "primary"
    /\ last.reply.text.count > MaxResults
    /\ RendersContent(last, prev.memory.content)

(* ================================ C2 ================================== *)
\* C2 as stated: with every Redis call rejecting, an add followed by a
\* matching search of the same user gets a found-case digest with the
\* content.
C2_AllFailRoundTrip ==
    (backend = "down" /\ AddThenSearch)
        => FoundCase(last) /\ RendersContent(last, prev.memory.content)

\* C2, amended: with every Redis call rejecting, an add followed by a
\* matching search of the same user gets a found-case digest that counts the
\* new memory, and that has its content when fewer than 10 other matching
\* memories of that user in the fallback array are as recent as the new one.
C2_FallbackRoundTrip ==
    (backend = "down" /\ AddThenSearch)
        => /\ FoundCase(last)
           /\ Found(last, Len(log))
           /\ Cardinality(Rivals(Len(log), last.args.query)) < MaxResults
                 => RendersContent(last, prev.memory.content)

C2_Witness ==
    /\ backend = "down"
    /\ AddThenSearch
    /\ redisStrings = EmptyMap
    /\ Len(memories) > 1
    /\ FoundCase(last)
    /\ RendersContent(last, prev.memory.content)

(* ================================ C3 ================================== *)
\* C3: a call whose arguments pass validation returns its normal text (the
\* confirmation, a digest, or the no-memories message), never an error,
\* whichever Redis call rejects.
C3_BackendErrorsAbsorbed ==
    (last.op \in {"add", "search"} /\ last.valid)
        => /\ last.reply.type = "text"
           /\ last.op = "add"
                 => last.reply.text.head = "Memory added successfully for user"
           /\ last.op = "search" => FoundCase(last) \/ NoneCase(last)

\* an add whose set went through and whose sadd rejected
C3_Witness ==
    /\ ValidAdd(last)
    /\ last.store = "fallback"
    /\ MemoryKey(last.userId, last.memory.id) \in DOMAIN redisStrings
    /\ last.reply.type = "text"

(* ================================ C4 ================================== *)
\* C4: every memory a search for a user collects, and so every line it
\* renders, is a memory that was added under that same user.
C4_NoCrossUser ==
    ValidSearch(last)
        => /\ \A k \in DOMAIN last.matches :
                 /\ log[LogIndex(last.matches[k].id)].memory.userId = last.userId
                 /\ log[LogIndex(last.matches[k].id)].memory.content
                       = last.matches[k].content
           /\ \A k \in DOMAIN Rendered(last) :
                 Rendered(last)[k].content = last.matches[k].content

\* a search that finds a memory while another user's memory matches as well
C4_Witness ==
    /\ ValidSearch(last)
    /\ FoundCase(last)
    /\ \E i \in 1..Len(log) :
          /\ log[i].memory.userId # last.userId
          /\ log[i].store = last.store
          /\ CaseInsensitiveSubstring(last.args.query, log[i].memory.content)

(* ================================ C5 ================================== *)
NoUserIdAdds == {i \in 1..Len(log) : "userId" \notin DOMAIN log[i].args}
\* a search that names no userId, or names the default one
DefaultSearch(call) ==
    "userId" \in DOMAIN call.args => call.args.userId = DefaultUserId
LooksFor(call, i) ==
    ValidSearch(call)
        /\ CaseInsensitiveSubstring(call.args.query, log[i].memory.content)

\* C5 as stated: a memory added with no userId is found by every later
\* matching search with no userId or the default one, and by no matching
\* search with another userId.
C5_DefaultUserAlwaysFound ==
    \A i \in NoUserIdAdds :
        LooksFor(last, i) => (Found(last, i) <=> DefaultSearch(last))

\* C5, amended: a memory added with no userId is among the matches of every
\* later matching search with no userId or the default one that is served by
\* the store holding the memory, and of no search with another userId.
C5_DefaultUserFound ==
    \A i \in NoUserIdAdds :
        LooksFor(last, i)
            => /\ (DefaultSearch(last) /\ last.store = log[i].store)
                     => Found(last, i)
               /\ ~DefaultSearch(last) => ~Found(last, i)

\* a search naming "quinn_may" finds a memory added with no userId
C5_Witness ==
    \E i \in NoUserIdAdds :
        /\ LooksFor(last, i)
        /\ "userId" \in DOMAIN last.args
        /\ last.args.userId = DefaultUserId
        /\ Found(last, i)
        /\ RendersContent(last, log[i].memory.content)

(* ================================ C6 ================================== *)
EmptyUserIdAdds ==
    {i \in 1..Len(log) :
        "userId" \in DOMAIN log[i].args /\ log[i].args.userId = <<>>}
EmptyUserIdSearch(call) ==
    ValidSearch(call) /\ "userId" \in DOMAIN call.args /\ call.args.userId = <<>>

\* C6 as stated: add and search turn the userId "" into the default one; a
\* memory added with "" is stored under the default user and found by a
\* matching search under the default user.
C6_EmptyBecomesDefault ==
    /\ EmptyUserIdSearch(last) => last.userId = DefaultUserId
    /\ \A i \in EmptyUserIdAdds :
          /\ log[i].memory.userId = DefaultUserId
          /\ (LooksFor(last, i) /\ last.userId = DefaultUserId
                 /\ last.store = log[i].store) => Found(last, i)

\* C6, amended: add and search keep the userId "" as it is; a memory added
\* with "" is stored under "", is among the matches of a matching search with
\* userId "" served by the store holding it, and of no search under the
\* default user.
C6_EmptyStaysEmpty ==
    /\ EmptyUserIdSearch(last) => last.userId = <<>>
    /\ \A i \in EmptyUserIdAdds :
          /\ log[i].memory.userId = <<>>
          /\ LooksFor(last, i)
                => /\ (EmptyUserIdSearch(last) /\ last.store = log[i].store)
                         => Found(last, i)
                   /\ DefaultSearch(last) => ~Found(last, i)

\* a search with userId "" finds a memory added with userId ""
C6_Witness ==
    \E i \in EmptyUserIdAdds :
        /\ LooksFor(last, i)
        /\ EmptyUserIdSearch(last)
        /\ Found(last, i)

(* ================================ C7 ================================== *)
\* when the memory of a search's k-th match was written
WrittenAt(call, k) == log[LogIndex(call.matches[k].id)].memory.timestamp

\* C7: the lines of a digest are those of the matches in order, and go from
\* the most recent memory to the oldest, on either path.
C7_MostRecentFirst ==
    ValidSearch(last)
        => /\ \A k \in DOMAIN Rendered(last) :
                 /\ Rendered(last)[k].content
                       = log[LogIndex(last.matches[k].id)].memory.content
                 /\ Rendered(last)[k].date = WrittenAt(last, k) \div DayLen
           /\ \A j, k \in DOMAIN Rendered(last) :
                 j < k => WrittenAt(last, j) >= WrittenAt(last, k)

\* three memories of three different times, read from Redis in another order
C7_Witness ==
    /\ ValidSearch(last)
    /\ last.store = "primary"
    /\ Len(Rendered(last)) >= 3
    /\ WrittenAt(last, 1) > WrittenAt(last, 2)
    /\ WrittenAt(last, 2) > WrittenAt(last, 3)
    /\ RedisSmembers(redisSets, SearchKey(last.userId))[1] # last.matches[1].id

(* ================================ C8 ================================== *)
\* C8: with n >= 1 matches in the store that serves a search, the digest
\* reports n, and renders min(n, 10) lines numbered from 1, those of the
\* most recent matches.
C8_TruncatedToTen ==
    ValidSearch(last) =>
        LET all == StoreMatches(last.store, last.userId, last.args.query)
            n == Cardinality(all)
            lines == Rendered(last)
            shown == {LogIndex(last.matches[k].id) : k \in DOMAIN lines}
        IN  n >= 1 =>
              /\ FoundCase(last)
              /\ last.reply.text.count = n
              /\ Len(lines) = Min(n, 10)
              /\ \A k \in DOMAIN lines : lines[k].index = k
              /\ shown \subseteq all
              /\ Cardinality(shown) = Len(lines)
              /\ \A i \in shown, j \in all \ shown :
                    log[i].memory.timestamp >= log[j].memory.timestamp

\* more matches than lines
C8_Witness ==
    /\ ValidSearch(last)
    /\ FoundCase(last)
    /\ last.reply.text.count = MaxResults + 1
    /\ Len(Rendered(last)) = MaxResults
    /\ Cardinality(StoreMatches(last.store, last.userId, last.args.query))
          = MaxResults + 1

(* ================================ C9 ================================== *)
\* C9: a search answers with the no-memories message exactly when the store
\* that serves it holds no match, and a found-case digest has a line.
C9_NoneIffNoMatch ==
    ValidSearch(last)
        => /\ NoneCase(last)
                 <=> StoreMatches(last.store, last.userId, last.args.query) = {}
           /\ FoundCase(last) => Len(Rendered(last)) >= 1
           /\ FoundCase(last) \/ NoneCase(last)

\* no match in the serving store, though the other store holds one
C9_Witness ==
    /\ ValidSearch(last)
    /\ NoneCase(last)
    /\ \E store \in {"primary", "fallback"} :
          StoreMatches(store, last.userId, last.args.query) # {}

(* ================================ C10 ================================= *)
\* `last` and `prev` are two searches in a row with the same arguments
SearchedTwice == ValidSearch(last) /\ ValidSearch(prev) /\ prev.args = last.args

\* C10 as stated: two searches in a row with the same arguments and no add
\* between them return the same digest, also when Redis answers one of them
\* and rejects the other.
C10_SameDigestAnyAvailability ==
    SearchedTwice => last.reply = prev.reply

\* C10, amended: two searches in a row with the same arguments and no add
\* between them return the same digest when the same store serves both.
C10_SameDigestSameStore ==
    (SearchedTwice /\ last.store = prev.store) => last.reply = prev.reply

\* twice the same digest of memories of one millisecond, from the fallback
C10_Witness ==
    /\ SearchedTwice
    /\ last.store = "fallback"
    /\ prev.store = "fallback"
    /\ Len(Rendered(last)) >= 2
    /\ WrittenAt(last, 1) = WrittenAt(last, 2)
    /\ last.reply = prev.reply

(* ------------------------------- C11 ---------------------------------- *)
\* the ids in userId's index set whose record is there and is no JSON
Malformed(userId) ==
    LET memoryIds == RedisSmembers(redisSets, SearchKey(userId))
    IN  {memoryIds[n] : n \in {k \in 1..Len(memoryIds) :
            LET memoryData == RedisGet(redisStrings,
                                       MemoryKey(userId, memoryIds[k]))
            IN  memoryData # <<>> /\ ~Parseable(memoryData[1])}}
\* the state with those records gone
WithoutMalformed(userId) ==
    LET gone == {MemoryKey(userId, id) : id \in Malformed(userId)}
    IN  [State EXCEPT !.strings =
            [k \in DOMAIN redisStrings \ gone |-> redisStrings[k]]]

\* C11: when the index holds an id whose record cannot be deserialized, a
\* search whose Redis calls all succeed gives the digest it would give if
\* that record were missing, and raises no error.
C11_MalformedAsAbsent ==
    (ValidSearch(last) /\ ~last.rejected)
        => /\ last.reply.type = "text"
           /\ last.reply =
                  SearchOutcome(WithoutMalformed(last.userId), last.args, 0).reply

(* ------------------------------- C12 ---------------------------------- *)
\* the ids in userId's index set with no record
Dangling(userId) ==
    LET memoryIds == RedisSmembers(redisSets, SearchKey(userId))
    IN  {memoryIds[n] : n \in {k \in 1..Len(memoryIds) :
            MemoryKey(userId, memoryIds[k]) \notin DOMAIN redisStrings}}
\* the ids in userId's index set whose record is there and matches query
PresentMatches(userId, query) ==
    LET memoryIds == RedisSmembers(redisSets, SearchKey(userId))
    IN  {memoryIds[n] : n \in {k \in 1..Len(memoryIds) :
            LET key == MemoryKey(userId, memoryIds[k])
            IN  /\ key \in DOMAIN redisStrings
                /\ Parseable(redisStrings[key])
                /\ CaseInsensitiveSubstring(query, redisStrings[key].content)}}
DanglingCase ==
    /\ ValidSearch(last)
    /\ ~last.rejected
    /\ Dangling(last.userId) # {}
    /\ Malformed(last.userId) = {}

\* C12: when the index holds an id with no record, a search whose Redis
\* calls all succeed is served by Redis all the same and collects every
\* record of the index that is there and matches, and nothing else.
C12_DanglingSkipped ==
    DanglingCase
        => /\ last.store = "primary"
           /\ {last.matches[k].id : k \in DOMAIN last.matches}
                  = PresentMatches(last.userId, last.args.query)
           /\ last.reply.type = "text"
\* a record that matched was evicted, another one is found, and the
\* fallback store holds a matching memory that is not in the result
C12_Witness ==
    /\ DanglingCase
    /\ FoundCase(last)
    /\ \E i \in 1..Len(log) :
          /\ log[i].memory.id \in Dangling(last.userId)
          /\ CaseInsensitiveSubstring(last.args.query, log[i].memory.content)
    /\ \E i \in 1..Len(log) : log[i].store = "fallback" /\ ~Found(last, i)

(* ------------------------------- C13 ---------------------------------- *)
\* C13: the reply of add-memory is a function of the content and the
\* userId alone: two calls with the same content and userId get the same
\* confirmation text, whichever store each of them wrote to.
C13_ReplyDependsOnInputs ==
    /\ ValidAdd(last) => last.reply.type = "text"
    /\ \A i, j \in 1..Len(log) :
          (/\ log[i].memory.content = log[j].memory.content
           /\ log[i].memory.userId = log[j].memory.userId)
              => log[i].reply = log[j].reply
\* the same content and userId went once to Redis and once, after a
\* rejected call, to the fallback store
C13_Witness ==
    \E i, j \in 1..Len(log) :
        /\ log[i].args = log[j].args
        /\ log[i].store = "primary"
        /\ log[j].store = "fallback"
        /\ log[j].reply.type = "text"

(* ------------------------------- C14 ---------------------------------- *)
\* what the two stores hold of a memory
HasRecord(memory) ==
    MemoryKey(memory.userId, memory.id) \in DOMAIN redisStrings
Indexed(memory) ==
    \E n \in DOMAIN RedisSmembers(redisSets, SearchKey(memory.userId)) :
        RedisSmembers(redisSets, SearchKey(memory.userId))[n] = memory.id
FallbackEntries(memory) == {k \in 1..Len(memories) : memories[k].id = memory.id}

\* C14: every add-memory call that returned has changed exactly one of
\* the two stores: Redis holds something of its memory, or the fallback
\* store does, never both and never neither; also when the record write
\* succeeds and the add-to-set then fails.
C14_ExactlyOneStore ==
    \A i \in 1..Len(log) :
        (HasRecord(log[i].memory) \/ Indexed(log[i].memory))
            # (FallbackEntries(log[i].memory) # {})

\* C14 amended: the memory is in the fallback store, once, exactly when one
\* of the call's two Redis calls rejected; when both resolved, Redis holds
\* the record and the index entry; what Redis applied before a rejection
\* stays there.
C14_FallbackIffRejected ==
    \A i \in 1..Len(log) :
        /\ Cardinality(FallbackEntries(log[i].memory))
              = (IF log[i].store = "fallback" THEN 1 ELSE 0)
        /\ log[i].store = "primary"
              => HasRecord(log[i].memory) /\ Indexed(log[i].memory)
        /\ Indexed(log[i].memory) => HasRecord(log[i].memory)
\* the record write succeeded, the add-to-set was rejected and not
\* applied: both stores were changed by the one call
C14_Witness ==
    /\ ValidAdd(last)
    /\ last.store = "fallback"
    /\ HasRecord(last.memory)
    /\ ~Indexed(last.memory)
    /\ FallbackEntries(last.memory) # {}
    /\ pending = EmptyMap

(* ------------------------------- C15 ---------------------------------- *)
\* the calls suspended at an await whose memory this record is
Suspended(record) ==
    {p \in DOMAIN pending : pending[p].memory.id = record.id}

\* C15: in every reachable state, between the awaits of add-memory calls
\* in flight and after a rejected add-to-set too, every record stored
\* under memory:<userId>:<id> has <id> in search:<userId>.
C15_EveryRecordIndexed ==
    \A key \in DOMAIN redisStrings : Indexed(redisStrings[key])

\* C15 amended: every id of an index set has its record; a record has its
\* id in the index set unless the call that wrote it is suspended at an
\* await, or one of its Redis calls rejected and the memory is in the
\* fallback store.
C15_IndexedOrAccounted ==
    /\ \A key \in DOMAIN redisStrings :
          \/ Indexed(redisStrings[key])
          \/ Suspended(redisStrings[key]) # {}
          \/ FallbackEntries(redisStrings[key]) # {}
    /\ \A i \in 1..Len(log) : Indexed(log[i].memory) => HasRecord(log[i].memory)
    /\ \A p \in DOMAIN pending : ~Indexed(pending[p].memory)
\* two calls in flight: the record of one is written and its add-to-set
\* is awaited, while an earlier rejected add-to-set left a record with no
\* index entry
C15_Witness ==
    /\ \E p \in DOMAIN pending :
          /\ pending[p].at = "sadd"
          /\ HasRecord(pending[p].memory)
    /\ \E i \in 1..Len(log) :
          /\ log[i].store = "fallback"
          /\ HasRecord(log[i].memory)
          /\ ~Indexed(log[i].memory)

(* ------------------------------- C16 ---------------------------------- *)
\* what Redis, with these strings and sets, holds of a memory
InRedis(strings, sets, memory) ==
    [record |-> MemoryKey(memory.userId, memory.id) \in DOMAIN strings,
     index |-> \E n \in DOMAIN RedisSmembers(sets, SearchKey(memory.userId)) :
                  RedisSmembers(sets, SearchKey(memory.userId))[n] = memory.id]

FallbackMatches(userId, query) ==
    {memories[k].id : k \in {n \in 1..Len(memories) :
        /\ memories[n].userId = userId
        /\ CaseInsensitiveSubstring(query, memories[n].content)}}
Collected(call) == {call.matches[k].id : k \in DOMAIN call.matches}

\* C17: a search is served by one store: when a Redis call of it rejects,
\* at smembers or at any get, what it collected so far is dropped and the
\* result is the fallback store's matching memories of that userId;
\* otherwise the result is made of Redis's memories only.
C17_OneStorePerSearch ==
    ValidSearch(last)
        => IF last.rejected
           THEN Collected(last) = FallbackMatches(last.userId, last.args.query)
           ELSE Collected(last) \subseteq
                    PresentMatches(last.userId, last.args.query)

(* ------------------------------- C18 ---------------------------------- *)
\* where the index set of userId enumerates this id
EnumeratedAt(userId, id) ==
    CHOOSE n \in DOMAIN RedisSmembers(redisSets, SearchKey(userId)) :
        RedisSmembers(redisSets, SearchKey(userId))[n] = id
\* two lines of the digest, the first above the second, of memories
\* written in the same millisecond
Ties(call) ==
    {jk \in (DOMAIN Rendered(call)) \X (DOMAIN Rendered(call)) :
        jk[1] < jk[2] /\ WrittenAt(call, jk[1]) = WrittenAt(call, jk[2])}

\* C18: memories of equal timestamp are rendered in the order in which
\* they were written, on the primary path and on the fallback path.
C18_TiesInWriteOrder ==
    ValidSearch(last)
        => \A jk \in Ties(last) :
              LogIndex(last.matches[jk[1]].id) < LogIndex(last.matches[jk[2]].id)

\* C18 amended: on the fallback path they are rendered in the order in
\* which they were written, on the primary path in the order in which the
\* index set enumerates their ids.
C18_TiesInCollectionOrder ==
    ValidSearch(last)
        => \A jk \in Ties(last) :
              IF last.store = "fallback"
              THEN LogIndex(last.matches[jk[1]].id)
                      < LogIndex(last.matches[jk[2]].id)
              ELSE EnumeratedAt(last.userId, last.matches[jk[1]].id)
                      < EnumeratedAt(last.userId, last.matches[jk[2]].id)
\* Redis serves the search and a memory is rendered above one of the same
\* millisecond that was written before it
C18_Witness ==
    /\ ValidSearch(last)
    /\ last.store = "primary"
    /\ \E jk \in Ties(last) :
          LogIndex(last.matches[jk[1]].id) > LogIndex(last.matches[jk[2]].id)
    /\ \E jk \in Ties(last) :
          LogIndex(last.matches[jk[1]].id) < LogIndex(last.matches[jk[2]].id)

(* ------------------------------- C19 ---------------------------------- *)
IsPrefix(s, t) == Len(s) <= Len(t) /\ SubSeq(t, 1, Len(s)) = s

\* C19: whatever the order in which the steps of concurrent requests
\* run, every step leaves the fallback sequence as it was or longer at
\* its end, no entry of it removed, moved or changed; and every add-memory
\* call with a rejected Redis call has put exactly one entry there, its
\* own memory.
C19_AppendOnly ==
    /\ [][IsPrefix(memories, memories')]_vars
    /\ [](/\ Len(memories)
                 = Cardinality({j \in 1..Len(log) : log[j].store = "fallback"})
           /\ \A i \in 1..Len(log) :
                 log[i].store = "fallback"
                    => \E k \in 1..Len(memories) :
                          /\ memories[k] = log[i].memory
                          /\ FallbackEntries(log[i].memory) = {k})
\* two calls were in flight together, the one that began later was rejected
\* first, and both are in the fallback store in the order of rejection
C19_Witness ==
    /\ Len(memories) = 2
    /\ memories[1].timestamp > memories[2].timestamp
    /\ pending = EmptyMap

(* ------------------------------- C20 ---------------------------------- *)
\* C20: a search-memories call, on either path, leaves the records and
\* the index sets of Redis and the fallback sequence, its entries and
\* their order, as they were.
C20_SearchReadOnly ==
    [][last'.op = "search"
          => /\ redisStrings' = redisStrings
             /\ redisSets' = redisSets
             /\ memories' = memories
             /\ log' = log]_vars
\* a search fell back and sorted its matches, the most recent first; the
\* fallback store still has them in the order of writing
C20_Witness ==
    /\ ValidSearch(last)
    /\ last.store = "fallback"
    /\ Len(last.matches) >= 2
    /\ last.matches[1].timestamp > last.matches[2].timestamp
    /\ \E j, k \in 1..Len(memories) :
          /\ j < k
          /\ memories[j].id = last.matches[2].id
          /\ memories[k].id = last.matches[1].id
====
